---- MODULE Spec2Model ----
(***************************************************************************)
(* The combinators apply, apply_ref, also and also_mut of apply_also       *)
(* (src/src/lib.rs), run on a small interpreter: a caller evaluates one    *)
(* expression at a time, each combinator call is a frame on the call       *)
(* stack, and the function supplied to a call runs one instruction at a    *)
(* time inside that frame, so that it can panic or call a combinator       *)
(* again before it returns.                                                *)
(***************************************************************************)
EXTENDS Integers, Sequences, FiniteSets, TLC

VARIABLES
    stack,      \* call stack: one frame per combinator call in progress
    local,      \* the caller's variable that `(&local).apply(f)` borrows
    result,     \* what the last finished expression gave the caller
    panicking,  \* payload of the panic being unwound, 0 when none
    raised,     \* payload of the panic as the function raised it, 0 when none
    out,        \* what the functions of the current expression printed
    chain0,     \* the value the current expression started from
    chain,      \* the calls chained so far in the current expression
    last,       \* record of the call that finished last
    refRun      \* record of the last top-level apply_ref call that finished

vars == <<stack, local, result, panicking, raised, out, chain0, chain, last, refRun>>

\* Bounds of the model.
MaxLen == 1     \* longest value a caller starts from
MaxElem == 2    \* elements are 1..MaxElem
MaxChain == 2   \* calls chained after the first one in an expression

RECURSIVE SeqsUpTo(_)
SeqsUpTo(n) ==
    IF n = 0 THEN {<<>>}
    ELSE SeqsUpTo(n - 1) \cup
         {Append(s, x) : s \in {t \in SeqsUpTo(n - 1) : Len(t) = n - 1}, x \in 1..MaxElem}

\* The values T the caller calls the combinators on: vectors.
Values == SeqsUpTo(MaxLen)

\* The value a function builds when it calls a combinator on a value of its own.
Other == <<2, 1>>

Ops == {"apply", "apply_ref", "also", "also_mut"}

(***************************************************************************)
(* Values and results.  A slot holds a vector it owns or a reference to    *)
(* the `self` of an enclosing frame (p > 0) or to the caller's variable    *)
(* (p = 0); m says whether the reference is `&mut`.                        *)
(***************************************************************************)
Vec(s) == [k |-> "vec", s |-> s, p |-> 0, m |-> FALSE]
Ref(p, m) == [k |-> "ref", s |-> <<>>, p |-> p, m |-> m]

NoRes == [kind |-> "none", n |-> 0, v |-> Vec(<<>>)]
Unit == [kind |-> "unit", n |-> 0, v |-> Vec(<<>>)]
IntRes(n) == [kind |-> "int", n |-> n, v |-> Vec(<<>>)]
ValRes(v) == [kind |-> "val", n |-> 0, v |-> v]
PanicRes(c) == [kind |-> "panic", n |-> c, v |-> Vec(<<>>)]

(***************************************************************************)
(* The supplied functions.  A function is a body of instructions run on    *)
(* its argument `it`, and the expression it returns.                       *)
(***************************************************************************)
Push(x) == [i |-> "push", x |-> x, op |-> "", f |-> 0, same |-> FALSE]
Println == [i |-> "print", x |-> 0, op |-> "", f |-> 0, same |-> FALSE]
Panic(c) == [i |-> "panic", x |-> c, op |-> "", f |-> 0, same |-> FALSE]
\* it.op(f) when same, Other.op(f) otherwise
CallI(op, f, same) == [i |-> "call", x |-> 0, op |-> op, f |-> f, same |-> same]

FnTable == <<
    [body |-> <<>>, ret |-> "len"],                                   \* 1: Vec::len
    [body |-> <<>>, ret |-> "unit"],                                  \* 2: test
    [body |-> <<Println>>, ret |-> "unit"],                           \* 3: |_| println!
    [body |-> <<Push(1), Push(2)>>, ret |-> "unit"],                  \* 4: push; push
    [body |-> <<Push(2)>>, ret |-> "self"],                           \* 5: |mut it| { ..; it }
    [body |-> <<Panic(7)>>, ret |-> "unit"],                          \* 6: panics
    [body |-> <<Push(1), Panic(8)>>, ret |-> "unit"],                 \* 7: mutates, panics
    [body |-> <<CallI("also_mut", 4, TRUE), Push(1)>>, ret |-> "unit"], \* 8: re-enters
    [body |-> <<CallI("also", 3, TRUE)>>, ret |-> "len"],             \* 9: re-enters, reads
    [body |-> <<CallI("apply", 5, FALSE), Println>>, ret |-> "unit"], \* 10: other value
    [body |-> <<CallI("also_mut", 6, TRUE)>>, ret |-> "unit"],        \* 11: inner panics
    [body |-> <<Push(2), CallI("also_mut", 8, TRUE)>>, ret |-> "unit"], \* 12: two deep
    [body |-> <<CallI("apply_ref", 1, TRUE), Println>>, ret |-> "unit"] \* 13
>>

Fns == 1..Len(FnTable)

\* The functions of the calls chained after the first one of an expression.
ChainFns == {1, 3, 4, 7, 8}

\* The function writes through its argument (so it needs `&mut T` or `T`).
RECURSIVE NeedsWrite(_)
NeedsWrite(f) ==
    \E j \in 1..Len(FnTable[f].body) :
        LET ins == FnTable[f].body[j] IN
        \/ ins.i = "push"
        \/ ins.i = "call" /\ ins.same /\ NeedsWrite(ins.f)

(***************************************************************************)
(* The combinators.                                                        *)
(***************************************************************************)
\* Mutant: apply_ref lends `&mut self`.
ArgModeRefAsMut(op) ==
    CASE op = "apply" -> "move"
      [] op = "apply_ref" -> "mut"
      [] op = "also" -> "ref"
      [] op = "also_mut" -> "mut"

\* Mutant: also lends `&mut self`.
ArgModeAlsoAsMut(op) ==
    CASE op = "apply" -> "move"
      [] op = "apply_ref" -> "ref"
      [] op = "also" -> "mut"
      [] op = "also_mut" -> "mut"

\* How each combinator hands `self` to the function.
ArgMode(op) ==
    CASE op = "apply" -> "move"
      [] op = "apply_ref" -> "ref"
      [] op = "also" -> "ref"
      [] op = "also_mut" -> "mut"

\* The return type of the function each combinator takes: R, or ().
FnReturnsUnit(op) == op \in {"also", "also_mut"}

\* The signatures: which functions the compiler accepts for op on a `self`
\* that is writable or not.
WellTyped(op, f, writable) ==
    /\ FnReturnsUnit(op) => FnTable[f].ret = "unit"
    /\ FnTable[f].ret = "self" => ArgMode(op) = "move"
    /\ NeedsWrite(f) => (ArgMode(op) # "ref" /\ writable)

\* Where a frame of the stack is in its combinator's body.
\*   "entry"    self and function are bound, the function is not yet invoked
\*   "running"  the function has been invoked and has not returned
\*   "returned" the function has returned r
NewFrame(op, f, self, v, o) ==
    [op |-> op, fn |-> f, self |-> self, ph |-> "entry", ip |-> 0, invoked |-> 0,
     arg |-> [mode |-> "none", seen |-> <<>>], v0 |-> v, out0 |-> o, r |-> NoRes,
     inner |-> NoRes, nested |-> 0, ev |-> <<"arg">>]

\* The frame whose vector a slot reaches (0: the caller's variable).
RECURSIVE TargetOf(_, _)
TargetOf(stk, s) ==
    IF s.k = "vec" THEN -1
    ELSE IF s.p = 0 THEN 0
    ELSE IF stk[s.p].self.k = "vec" THEN s.p
    ELSE TargetOf(stk, stk[s.p].self)

\* The vector a slot holds or reaches.
Deref(stk, loc, s) ==
    IF s.k = "vec" THEN s.s
    ELSE IF TargetOf(stk, s) = 0 THEN loc
    ELSE stk[TargetOf(stk, s)].self.s

\* The vector the frame at i has as `self`.
View(stk, loc, i) == Deref(stk, loc, stk[i].self)

\* A vector can be written through the slot: it is owned, or every reference
\* on the way to it is `&mut`.
RECURSIVE Writable(_, _)
Writable(stk, s) ==
    \/ s.k = "vec"
    \/ s.m /\ s.p # 0 /\ Writable(stk, stk[s.p].self)

\* Mutant: the function is handed a copy, its writes stay in the frame.
WriteViewCopy(stk, i, v) == [stk EXCEPT ![i].self.s = v]

\* The stack with the vector that `self` of frame i reaches replaced by v.
WriteView(stk, i, v) ==
    LET t == IF stk[i].self.k = "vec" THEN i ELSE TargetOf(stk, stk[i].self)
    IN [stk EXCEPT ![t].self.s = v]

\* Mutant: the combinator invokes the function again.
AfterFunctionRetry(op) == "entry"

\* After the function has returned, the body of the combinator has nothing
\* left to run but its tail expression.
AfterFunction(op) == "returned"

\* Mutant: the tail expression runs without the function having run.
ResultReadyEarly(fr) == fr.ph \in {"entry", "returned"}

\* The combinator's tail expression may run.
ResultReady(fr) == fr.ph = "returned"

\* Mutant: apply ends in `function(self);` and drops the result.
ProducesApplyDropsResult(op, fr) ==
    CASE op = "apply" -> Unit
      [] op = "apply_ref" -> fr.r
      [] op = "also" -> ValRes(fr.self)
      [] op = "also_mut" -> ValRes(fr.self)

\* Mutant: apply_ref ends in `function(&self);` and drops the result.
ProducesApplyRefDropsResult(op, fr) ==
    CASE op = "apply" -> fr.r
      [] op = "apply_ref" -> Unit
      [] op = "also" -> ValRes(fr.self)
      [] op = "also_mut" -> ValRes(fr.self)

\* Mutant: also returns a new empty value instead of `self`.
ProducesAlsoDefault(op, fr) ==
    CASE op = "apply" -> fr.r
      [] op = "apply_ref" -> fr.r
      [] op = "also" -> ValRes(Vec(<<>>))
      [] op = "also_mut" -> ValRes(fr.self)

\* Mutant: also_mut returns the value as it was passed in.
ProducesAlsoMutOriginal(op, fr) ==
    CASE op = "apply" -> fr.r
      [] op = "apply_ref" -> fr.r
      [] op = "also" -> ValRes(fr.self)
      [] op = "also_mut" -> ValRes(Vec(fr.v0))

\* The tail expression of each combinator: the function's result or `self`.
Produces(op, fr) ==
    CASE op = "apply" -> fr.r
      [] op = "apply_ref" -> fr.r
      [] op = "also" -> ValRes(fr.self)
      [] op = "also_mut" -> ValRes(fr.self)

\* Mutant: also and also_mut catch the panic and return `self`.
OnPanicSwallow(op, fr, payload) ==
    IF op \in {"also", "also_mut"} THEN ValRes(fr.self) ELSE PanicRes(payload)

\* A panic of the function leaves the combinator as it is: nothing catches it.
OnPanic(op, fr, payload) == PanicRes(payload)

\* What the function returns.
RetVal(ret, stk, loc, i) ==
    CASE ret = "unit" -> Unit
      [] ret = "len" -> IntRes(Len(View(stk, loc, i)))
      [] ret = "self" -> ValRes(stk[i].self)

Top == Len(stack)
Idle == stack = <<>>

NoLast ==
    [op |-> "none", fn |-> 0, depth |-> 0, self |-> Vec(<<>>), v0 |-> <<>>,
     vEnd |-> <<>>, arg |-> [mode |-> "none", seen |-> <<>>], r |-> NoRes,
     res |-> NoRes, invoked |-> 0, fnPanic |-> 0, nested |-> 0, ev |-> <<>>,
     out0 |-> <<>>, out |-> <<>>]

NoRun == [v |-> <<>>, fn |-> 0, res |-> NoRes, out |-> <<>>]

Finished(fr, res, fnPanic) ==
    [op |-> fr.op, fn |-> fr.fn, depth |-> Top, self |-> fr.self, v0 |-> fr.v0,
     vEnd |-> View(stack, local, Top), arg |-> fr.arg, r |-> fr.r, res |-> res,
     invoked |-> fr.invoked, fnPanic |-> fnPanic, nested |-> fr.nested,
     ev |-> Append(fr.ev, IF res.kind = "panic" THEN "unwind" ELSE "result"),
     out0 |-> fr.out0, out |-> out]

Init ==
    /\ stack = <<>>
    /\ local = <<>>
    /\ result = NoRes
    /\ panicking = 0
    /\ raised = 0
    /\ out = <<>>
    /\ chain0 = <<>>
    /\ chain = <<>>
    /\ last = NoLast
    /\ refRun = NoRun

(***************************************************************************)
(* The caller.                                                             *)
(***************************************************************************)
\* v.op(f) on a fresh value v.
CallFresh(op, v, f) ==
    /\ Idle
    /\ chain = <<>>
    /\ WellTyped(op, f, TRUE)
    /\ stack' = <<NewFrame(op, f, Vec(v), v, <<>>)>>
    /\ local' = <<>>
    /\ result' = NoRes
    /\ raised' = 0
    /\ out' = <<>>
    /\ chain0' = v
    /\ chain' = <<[op |-> op, fn |-> f]>>
    /\ UNCHANGED <<panicking, last, refRun>>

\* (&local).apply(f), as in tests::apply; also right after v.apply_ref(f), on
\* an equal value and with the same function, as in the documentation of
\* apply_ref.
CallOnRef(v, f) ==
    /\ Idle
    /\ \/ chain = <<>>
       \/ /\ refRun # NoRun
          /\ Len(chain) = 1
          /\ chain[1].op = "apply_ref"
          /\ v = refRun.v
          /\ f = refRun.fn
    /\ WellTyped("apply", f, FALSE)
    /\ stack' = <<NewFrame("apply", f, Ref(0, FALSE), v, <<>>)>>
    /\ local' = v
    /\ result' = NoRes
    /\ raised' = 0
    /\ out' = <<>>
    /\ chain0' = v
    /\ chain' = <<[op |-> "apply&", fn |-> f]>>
    /\ last' = NoLast
    /\ UNCHANGED <<panicking, refRun>>

\* x.op(f) on the value x the previous call of the expression returned.
CallChained(op, f) ==
    /\ Idle
    /\ result.kind = "val"
    /\ result.v.k = "vec"
    /\ Len(chain) <= MaxChain
    /\ WellTyped(op, f, TRUE)
    /\ stack' = <<NewFrame(op, f, result.v, result.v.s, out)>>
    /\ result' = NoRes
    /\ chain' = Append(chain, [op |-> op, fn |-> f])
    /\ UNCHANGED <<local, panicking, raised, out, chain0, last, refRun>>

\* The statement ends: what the expression returned is dropped.
EndStatement ==
    /\ Idle
    /\ chain # <<>>
    /\ local' = <<>>
    /\ result' = NoRes
    /\ raised' = 0
    /\ out' = <<>>
    /\ chain0' = <<>>
    /\ chain' = <<>>
    /\ last' = NoLast
    /\ refRun' = NoRun
    /\ UNCHANGED <<stack, panicking>>

(***************************************************************************)
(* The combinators invoke the function.                                    *)
(***************************************************************************)
Invoke(op) ==
    /\ ~Idle
    /\ panicking = 0
    /\ stack[Top].op = op
    /\ stack[Top].ph = "entry"
    /\ stack' = [stack EXCEPT ![Top].ph = "running",
                              ![Top].ip = 1,
                              ![Top].invoked = @ + 1,
                              ![Top].arg = [mode |-> ArgMode(op),
                                            seen |-> View(stack, local, Top)],
                              ![Top].ev = Append(@, "invoke")]
    /\ UNCHANGED <<local, result, panicking, raised, out, chain0, chain, last, refRun>>

\* function(self)
apply == Invoke("apply")
\* function(&self)
apply_ref == Invoke("apply_ref")
\* function(&self);
also == Invoke("also")
\* function(&mut self);
also_mut == Invoke("also_mut")

(***************************************************************************)
(* The function runs.                                                      *)
(***************************************************************************)
Running ==
    /\ ~Idle
    /\ panicking = 0
    /\ stack[Top].ph = "running"

AtInstr(kind) ==
    /\ Running
    /\ stack[Top].ip <= Len(FnTable[stack[Top].fn].body)
    /\ FnTable[stack[Top].fn].body[stack[Top].ip].i = kind

Instr == FnTable[stack[Top].fn].body[stack[Top].ip]

\* it.push(x)
FnPush ==
    /\ AtInstr("push")
    /\ stack' = [WriteView(stack, Top, Append(View(stack, local, Top), Instr.x))
                    EXCEPT ![Top].ip = @ + 1]
    /\ UNCHANGED <<local, result, panicking, raised, out, chain0, chain, last, refRun>>

\* println!("{:?}", it)
FnPrint ==
    /\ AtInstr("print")
    /\ out' = Append(out, View(stack, local, Top))
    /\ stack' = [stack EXCEPT ![Top].ip = @ + 1]
    /\ UNCHANGED <<local, result, panicking, raised, chain0, chain, last, refRun>>

\* panic!(c)
FnPanic ==
    /\ AtInstr("panic")
    /\ panicking' = Instr.x
    /\ raised' = Instr.x
    /\ UNCHANGED <<stack, local, result, out, chain0, chain, last, refRun>>

\* it.op(f) or Other.op(f) inside the function: the combinator is entered again.
NestedCall ==
    /\ AtInstr("call")
    /\ LET self == IF Instr.same
                   THEN Ref(Top, stack[Top].arg.mode # "ref")
                   ELSE Vec(Other)
           v == IF Instr.same THEN View(stack, local, Top) ELSE Other
       IN /\ WellTyped(Instr.op, Instr.f, Writable(stack, self))
          /\ stack' = Append([stack EXCEPT ![Top].nested = @ + 1],
                             NewFrame(Instr.op, Instr.f, self, v, out))
    /\ UNCHANGED <<local, result, panicking, raised, out, chain0, chain, last, refRun>>

\* The function returns.
FnReturn ==
    /\ Running
    /\ stack[Top].ip > Len(FnTable[stack[Top].fn].body)
    /\ stack' = [stack EXCEPT ![Top].ph = AfterFunction(stack[Top].op),
                              ![Top].r = RetVal(FnTable[stack[Top].fn].ret,
                                                stack, local, Top),
                              ![Top].ev = Append(@, "fnret")]
    /\ UNCHANGED <<local, result, panicking, raised, out, chain0, chain, last, refRun>>

(***************************************************************************)
(* The combinators return, or are unwound.                                 *)
(***************************************************************************)
\* The frame on top leaves the stack with res.
Leave(res) ==
    LET fr == stack[Top]
        rest == SubSeq(stack, 1, Top - 1)
        normal == res.kind # "panic"
    IN /\ last' = Finished(fr, res, panicking)
       /\ IF Top = 1
          THEN /\ stack' = <<>>
               /\ result' = res
               /\ panicking' = 0
               /\ refRun' = IF fr.op = "apply_ref" /\ Len(chain) = 1
                            THEN [v |-> fr.v0, fn |-> fr.fn, res |-> res, out |-> out]
                            ELSE refRun
          ELSE /\ stack' = IF normal
                           THEN [rest EXCEPT ![Top - 1].inner = res,
                                             ![Top - 1].ip = @ + 1]
                           ELSE rest
               /\ panicking' = IF normal THEN 0 ELSE res.n
               /\ UNCHANGED <<result, refRun>>
       /\ UNCHANGED <<local, raised, out, chain0, chain>>

\* apply, apply_ref: the call of the function is the tail expression.
ReturnResult ==
    /\ ~Idle
    /\ panicking = 0
    /\ stack[Top].op \in {"apply", "apply_ref"}
    /\ ResultReady(stack[Top])
    /\ Leave(Produces(stack[Top].op, stack[Top]))

\* also, also_mut: `self` is the tail expression.
ReturnSelf ==
    /\ ~Idle
    /\ panicking = 0
    /\ stack[Top].op \in {"also", "also_mut"}
    /\ ResultReady(stack[Top])
    /\ Leave(Produces(stack[Top].op, stack[Top]))

\* The function panicked: the frame of the combinator is unwound.
Unwind ==
    /\ ~Idle
    /\ panicking # 0
    /\ Leave(OnPanic(stack[Top].op, stack[Top], panicking))

Next ==
    \/ \E op \in Ops, v \in Values, f \in Fns : CallFresh(op, v, f)
    \/ \E v \in Values, f \in Fns : CallOnRef(v, f)
    \/ \E op \in Ops, f \in ChainFns : CallChained(op, f)
    \/ EndStatement
    \/ apply
    \/ apply_ref
    \/ also
    \/ also_mut
    \/ FnPush
    \/ FnPrint
    \/ FnPanic
    \/ NestedCall
    \/ FnReturn
    \/ ReturnResult
    \/ ReturnSelf
    \/ Unwind

Spec == Init /\ [][Next]_vars

(***************************************************************************)
(* Reference semantics of the supplied functions: what a function does to  *)
(* a value when it is simply called on it, a combinator called inside it   *)
(* being the call of the inner function.  acc = [v, out, p]: the value,    *)
(* the output so far, the payload of the panic (0: none).                  *)
(***************************************************************************)
RECURSIVE RunBody(_, _)
RunBody(body, acc) ==
    IF body = <<>> \/ acc.p # 0 THEN acc
    ELSE LET ins == Head(body)
             inner == RunBody(FnTable[ins.f].body, [v |-> Other, out |-> acc.out, p |-> 0])
             step == CASE ins.i = "push" -> [acc EXCEPT !.v = Append(@, ins.x)]
                       [] ins.i = "print" -> [acc EXCEPT !.out = Append(@, acc.v)]
                       [] ins.i = "panic" -> [acc EXCEPT !.p = ins.x]
                       [] ins.i = "call" /\ ins.same -> RunBody(FnTable[ins.f].body, acc)
                       [] ins.i = "call" /\ ~ins.same ->
                            [acc EXCEPT !.out = inner.out, !.p = inner.p]
         IN RunBody(Tail(body), step)

\* f called on v with the output o so far.
Called(f, v, o) == RunBody(FnTable[f].body, [v |-> v, out |-> o, p |-> 0])

\* The finished call l did not panic.
Normal(l) == l.op # "none" /\ l.res.kind # "panic"

\* The result res of the finished call l is the result of its function in e.
IsFnResult(l, res, e) ==
    CASE FnTable[l.fn].ret = "unit" -> res = Unit
      [] FnTable[l.fn].ret = "len" -> res = IntRes(Len(e.v))
      [] FnTable[l.fn].ret = "self" -> res = ValRes(l.self) /\ l.vEnd = e.v

\* The result of the finished call l is its `self`, holding v.
IsSelf(l, v) ==
    /\ l.res = ValRes(l.self)
    /\ l.vEnd = v
    /\ l.self.k = "vec" => l.res.v = Vec(v)

\* C1: apply(v, f) hands f the value v itself and returns exactly what f
\* returned, which is the result of f on v.
C1_ApplyReturnsFunctionResult ==
    (last.op = "apply" /\ Normal(last)) =>
        LET e == Called(last.fn, last.v0, last.out0) IN
        /\ last.arg = [mode |-> "move", seen |-> last.v0]
        /\ last.res = last.r
        /\ e.p = 0
        /\ IsFnResult(last, last.res, e)

C1_Witness ==
    /\ last.op = "apply" /\ last.fn = 5 /\ last.depth = 1
    /\ last.v0 = <<1>> /\ last.res = ValRes(Vec(<<1, 2>>))

\* C2: apply_ref(v, f) hands f a read-only view of v and returns exactly
\* what f returned on it; v is the same when the function has returned.
C2_ApplyRefReturnsFunctionResult ==
    (last.op = "apply_ref" /\ Normal(last)) =>
        LET e == Called(last.fn, last.v0, last.out0) IN
        /\ last.arg = [mode |-> "ref", seen |-> last.v0]
        /\ last.res = last.r
        /\ e.p = 0
        /\ IsFnResult(last, last.res, e)
        /\ last.vEnd = last.v0

C2_Witness ==
    /\ last.op = "apply_ref" /\ last.fn = 1 /\ last.depth = 1
    /\ last.v0 = <<1, 2, 1>> /\ last.vEnd = <<1, 2, 1>> /\ last.res = IntRes(3)

\* C3: also(v, g) returns v, unchanged, whatever g printed.
C3_AlsoReturnsOriginal ==
    (last.op = "also" /\ Normal(last)) =>
        /\ last.arg = [mode |-> "ref", seen |-> last.v0]
        /\ IsSelf(last, last.v0)

C3_Witness ==
    /\ last.op = "also" /\ last.fn = 3 /\ last.depth = 1
    /\ last.v0 = <<2>> /\ last.res = ValRes(Vec(<<2>>)) /\ last.out = <<<<2>>>>

\* C4: also_mut(v, h) returns v as h left it: with every mutation of h and
\* nothing else.
C4_AlsoMutReturnsMutated ==
    (last.op = "also_mut" /\ Normal(last)) =>
        LET e == Called(last.fn, last.v0, last.out0) IN
        /\ last.arg = [mode |-> "mut", seen |-> last.v0]
        /\ e.p = 0
        /\ IsSelf(last, e.v)

C4_Witness ==
    /\ last.op = "also_mut" /\ last.fn = 4 /\ last.depth = 1
    /\ last.v0 = <<>> /\ last.res = ValRes(Vec(<<1, 2>>))

\* C5: every call invokes its function exactly once: never twice, and a call
\* that has finished has invoked it once.
C5_InvokedExactlyOnce ==
    /\ \A i \in 1..Top :
          /\ stack[i].invoked <= 1
          /\ stack[i].ph # "entry" => stack[i].invoked = 1
    /\ last.op # "none" => last.invoked = 1

C5_Witness ==
    /\ last.op = "apply_ref" /\ last.depth = 2 /\ last.invoked = 1
    /\ Top = 1 /\ stack[1].op = "also_mut" /\ stack[1].invoked = 1

\* C6: a call whose function failed ends with that same failure: the payload
\* is the one raised, the function is not invoked again, and neither the
\* call nor the caller's expression gets a normal result.
C6_FailureTransparent ==
    /\ panicking # 0 => panicking = raised
    /\ last.fnPanic # 0 =>
          /\ last.fnPanic = raised
          /\ last.res = PanicRes(raised)
          /\ last.invoked = 1
    /\ (Idle /\ raised # 0) => result = PanicRes(raised)

C6_Witness ==
    /\ Idle /\ last.op = "also_mut" /\ last.fn = 11 /\ last.nested = 1
    /\ raised = 7 /\ result = PanicRes(7)

\* C7: v.apply_ref(f) and (&v).apply(f) give the same result and print the
\* same.
C7_ApplyRefIsApplyOnRef ==
    (/\ Idle
     /\ refRun # NoRun
     /\ last.op = "apply" /\ last.self = Ref(0, FALSE)
     /\ last.v0 = refRun.v /\ last.fn = refRun.fn) =>
        /\ result = refRun.res
        /\ out = refRun.out

C7_Witness ==
    /\ Idle
    /\ refRun = [v |-> <<1>>, fn |-> 9, res |-> IntRes(1), out |-> <<<<1>>>>]
    /\ last.op = "apply" /\ last.self = Ref(0, FALSE)
    /\ last.v0 = <<1>> /\ last.fn = 9 /\ result = IntRes(1)

\* C8: in every call the argument is bound, then the function is invoked and
\* returns, then the result is produced; while a call is in progress inside
\* a function, that function is still running and its call has produced
\* nothing.
C8_TotalOrder ==
    /\ \A i \in 1..Top :
          /\ stack[i].ph = "entry" => stack[i].ev = <<"arg">>
          /\ stack[i].ph = "running" => stack[i].ev = <<"arg", "invoke">>
          /\ stack[i].ph = "returned" => stack[i].ev = <<"arg", "invoke", "fnret">>
          /\ i < Top => stack[i].ph = "running"
    /\ Normal(last) => last.ev = <<"arg", "invoke", "fnret", "result">>
    /\ (last.op # "none" /\ ~Normal(last)) => last.ev = <<"arg", "invoke", "unwind">>

C8_Witness ==
    /\ Top = 2 /\ stack[1].op = "also_mut" /\ stack[2].op = "also_mut"
    /\ stack[2].ph = "returned"
    /\ last.op = "also_mut" /\ last.depth = 3
    /\ last.ev = <<"arg", "invoke", "fnret", "result">>

\* C9: a call made inside a function, and the call whose function made it,
\* each invoke their function once and end as their own contract says: with
\* the result of the function or with `self`, the value being what the
\* functions did to it and a call on another value leaving it alone; the
\* outer function waits at its call while the inner call is in progress.
C9_Reentrant ==
    /\ \A i \in 1..(Top - 1) :
          /\ stack[i].ph = "running"
          /\ stack[i].nested >= 1
          /\ stack[i].ip <= Len(FnTable[stack[i].fn].body)
          /\ FnTable[stack[i].fn].body[stack[i].ip].i = "call"
    /\ (last.op # "none" /\ (last.depth > 1 \/ last.nested > 0)) =>
          LET e == Called(last.fn, last.v0, last.out0) IN
          /\ last.invoked = 1
          /\ last.out = e.out
          /\ last.vEnd = e.v
          /\ IF e.p # 0 THEN last.res = PanicRes(e.p)
             ELSE IF last.op \in {"apply", "apply_ref"}
                  THEN IsFnResult(last, last.res, e)
                  ELSE IsSelf(last, e.v)

C9_Witness ==
    /\ Idle /\ last.op = "also_mut" /\ last.fn = 12 /\ last.nested = 1
    /\ last.v0 = <<>> /\ result = ValRes(Vec(<<2, 1, 2, 1>>))

\* The bodies of the functions of the calls c[1..n] that ops holds, in order.
RECURSIVE Bodies(_, _)
Bodies(c, ops) ==
    IF c = <<>> THEN <<>>
    ELSE (IF Head(c).op \in ops THEN FnTable[Head(c).fn].body ELSE <<>>)
         \o Bodies(Tail(c), ops)

\* C10: a chain of also_mut and also calls returns what one also_mut call
\* with the functions run in order returns, the also calls change nothing
\* of it, and each function sees the value as the earlier ones left it.
C10_ChainComposes ==
    (/\ Idle
     /\ Len(chain) >= 2
     /\ \A j \in 1..Len(chain) : chain[j].op \in {"also", "also_mut"}) =>
        LET all == RunBody(Bodies(chain, {"also", "also_mut"}),
                           [v |-> chain0, out |-> <<>>, p |-> 0])
            muts == RunBody(Bodies(chain, {"also_mut"}),
                            [v |-> chain0, out |-> <<>>, p |-> 0])
        IN IF all.p # 0 THEN result = PanicRes(all.p)
           ELSE /\ result = ValRes(Vec(all.v))
                /\ result = ValRes(Vec(muts.v))
                /\ out = all.out

C10_Witness ==
    /\ Idle
    /\ chain = <<[op |-> "also_mut", fn |-> 4], [op |-> "also", fn |-> 3],
                 [op |-> "also_mut", fn |-> 4]>>
    /\ chain0 = <<>>
    /\ out = <<<<1, 2>>>>
    /\ result = ValRes(Vec(<<1, 2, 1, 2>>))

====
